---- MODULE Spec2Model ----
(***************************************************************************)
(* State-machine model of the MReasoner wrapper around a Clozure Common    *)
(* LISP child process: the background stdout reader, the result queue,     *)
(* the command channel, the parameter store, query and terminate.          *)
(* Text is modelled as sequences of one-character strings so that the      *)
(* reader's and query's string tests are computed, not assumed.            *)
(* Both modules are modelled: src/mreasoner/mreasoner.py in full for the   *)
(* protocol, src/mreasoner.py for its construction, reader, set_param and  *)
(* terminate.                                                              *)
(***************************************************************************)
EXTENDS Integers, Sequences, FiniteSets, TLC

(***************************************************************************)
(* Python string primitives used by the code, on character sequences.      *)
(***************************************************************************)
Whitespace == {" ", "\t", "\n", "\r"}

Digits == {"0", "1", "2", "3", "4", "5", "6", "7", "8", "9"}

NonAscii == {"~~"}

RECURSIVE lstrip(_)
lstrip(s) == IF s # <<>> /\ Head(s) \in Whitespace THEN lstrip(Tail(s)) ELSE s

RECURSIVE rstrip(_)
rstrip(s) ==
    IF s # <<>> /\ s[Len(s)] \in Whitespace
    THEN rstrip(SubSeq(s, 1, Len(s) - 1))
    ELSE s

\* str.strip()
strip(s) == rstrip(lstrip(s))

\* str.startswith(p)
startswith(s, p) == Len(s) >= Len(p) /\ SubSeq(s, 1, Len(p)) = p

\* p in s
contains(s, p) == \E i \in 1..(Len(s) - Len(p) + 1) : SubSeq(s, i, i + Len(p) - 1) = p

\* s[n:]
slice_from(s, n) == SubSeq(s, n + 1, Len(s))

\* s.replace(c, '') for every c in cs
remove_chars(s, cs) == SelectSeq(s, LAMBDA c : c \notin cs)

RECURSIVE split_acc(_, _, _)
split_acc(s, word, acc) ==
    IF s = <<>>
    THEN IF word = <<>> THEN acc ELSE Append(acc, word)
    ELSE IF Head(s) \in Whitespace
         THEN split_acc(Tail(s), <<>>, IF word = <<>> THEN acc ELSE Append(acc, word))
         ELSE split_acc(Tail(s), Append(word, Head(s)), acc)

\* str.split() with no separator: runs of whitespace separate, no empty words
split(s) == split_acc(s, <<>>, <<>>)

lower_char(c) ==
    CASE c = "I" -> "i" [] c = "N" -> "n" [] c = "F" -> "f" [] c = "T" -> "t"
      [] c = "Y" -> "y" [] c = "A" -> "a" [] c = "E" -> "e" [] OTHER -> c

lower(s) == [i \in 1..Len(s) |-> lower_char(s[i])]

\* digit (["_"] digit)*
is_digitpart(s) ==
    /\ s # <<>>
    /\ \A i \in 1..Len(s) :
          \/ s[i] \in Digits
          \/ /\ s[i] = "_"
             /\ 1 < i /\ i < Len(s)
             /\ s[i - 1] \in Digits /\ s[i + 1] \in Digits

\* digitpart ["." [digitpart]] | "." digitpart
is_pointfloat(s) ==
    LET dots == {i \in 1..Len(s) : s[i] = "."}
    IN  IF dots = {}
        THEN is_digitpart(s)
        ELSE /\ Cardinality(dots) = 1
             /\ LET k == CHOOSE i \in dots : TRUE
                    a == SubSeq(s, 1, k - 1)
                    b == SubSeq(s, k + 1, Len(s))
                IN  /\ a = <<>> \/ is_digitpart(a)
                    /\ b = <<>> \/ is_digitpart(b)
                    /\ a # <<>> \/ b # <<>>

unsigned(s) == IF s # <<>> /\ Head(s) \in {"+", "-"} THEN Tail(s) ELSE s

\* Whether float(s) succeeds (True) or raises ValueError (False).
float_ok(s) ==
    LET t == unsigned(lower(strip(s)))
        es == {i \in 1..Len(t) : t[i] = "e"}
    IN  \/ t \in {<<"i", "n", "f">>, <<"n", "a", "n">>,
                  <<"i", "n", "f", "i", "n", "i", "t", "y">>}
        \/ /\ es = {}
           /\ is_pointfloat(t)
        \/ /\ Cardinality(es) = 1
           /\ LET k == CHOOSE i \in es : TRUE
              IN  /\ is_pointfloat(SubSeq(t, 1, k - 1))
                  /\ is_digitpart(unsigned(SubSeq(t, k + 1, Len(t))))

(***************************************************************************)
(* Protocol keywords of the code.                                          *)
(***************************************************************************)
TERMINATE == <<"T", "E", "R", "M", "I", "N", "A", "T", "E">>

ERROR_KW == <<"E", "r", "r", "o", "r", ":">>

WHILE_EXECUTING == <<"W", "h", "i", "l", "e", " ", "e", "x", "e", "c", "u", "t", "i", "n", "g", ":">>

Q_INTENSION == <<"Q", "-", "I", "N", "T", "E", "N", "S", "I", "O", "N">>

NULL_INTENSION == <<"N", "U", "L", "L", "-", "I", "N", "T", "E", "N", "S", "I", "O", "N">>

NIL == <<"N", "I", "L">>

HALT == <<"H", "A", "L", "T">>

NVC == <<"N", "V", "C">>


(***************************************************************************)
(* Output lines the child process can write, as the bytes of one           *)
(* readline() without the newline; "eof" is what readline() gives at end   *)
(* of stream.                                                              *)
(***************************************************************************)
Paren(s) == <<"(">> \o s \o <<")">>

Prompt(s) == <<"?", " ">> \o s

Quoted(s) == <<"\"">> \o s \o <<"\"">>

Aac == <<"A", "a", "c">>

Iac == <<"I", "a", "c">>

LineTable ==
    "banner"      :> <<"C", "C", "L">> @@
    "eof"         :> <<>> @@
    "comment"     :> <<";", " ", "x">> @@
    "commentTerm" :> <<";">> \o TERMINATE @@
    "commentErr"  :> <<";", " ">> \o ERROR_KW @@
    "indented"    :> <<" ", ";">> \o TERMINATE @@
    "terminate"   :> Quoted(TERMINATE) @@
    "promptTerm"  :> Prompt(Quoted(TERMINATE)) @@
    "errorTerm"   :> ERROR_KW \o <<" ">> \o TERMINATE @@
    "error"       :> <<">", " ">> \o ERROR_KW \o <<" ", "x">> @@
    "whileExec"   :> <<">", " ">> \o WHILE_EXECUTING \o <<" ", "x">> @@
    "float"       :> Prompt(<<"3", ".", "1", "4">>) @@
    "floatExp"    :> Prompt(<<"-", "1", "E", "+", "5">>) @@
    "floatInf"    :> Prompt(<<"i", "n", "f">>) @@
    "floatPad"    :> Prompt(<<" ", "0", ".", "0">>) @@
    "quant"       :> Prompt(Paren(Paren(Q_INTENSION))) @@
    "null"        :> Prompt(Paren(Paren(NULL_INTENSION))) @@
    "nullAndQ"    :> Prompt(Paren(NULL_INTENSION \o <<" ">> \o Q_INTENSION)) @@
    "concls"      :> Prompt(Paren(Quoted(Aac) \o <<" ">> \o Quoted(Iac))) @@
    "string"      :> Prompt(Quoted(Aac)) @@
    "nil"         :> Prompt(NIL) @@
    "emptyList"   :> Prompt(Paren(<<>>)) @@
    "emptyString" :> Prompt(Quoted(<<>>)) @@
    "oneQuote"    :> Prompt(<<"\"">>) @@
    "junk"        :> Prompt(<<"f", "o", "o">>) @@
    "noSpace"     :> <<"?">> \o Quoted(Aac) @@
    "bare"        :> <<"?">> @@
    "promptOnly"  :> Prompt(<<>>) @@
    "errQuant"    :> Prompt(Paren(ERROR_KW \o <<" ", "x">>)) @@
    "errString"   :> Prompt(Quoted(WHILE_EXECUTING)) @@
    "errBare"     :> <<"?", " ">> \o ERROR_KW @@
    "result"      :> Quoted(<<"R", "E", "S", "U", "L", "T">>) @@
    "nonAscii"    :> <<"c", "a", "f", "~~">>

AllLines == DOMAIN LineTable

(***************************************************************************)
(* One pass of the reader loop body on one line: the values it puts on     *)
(* the queue, in order, and how the pass ends ("continue" the loop,        *)
(* "break" out of it, or "raise" an exception that ends the thread).       *)
(***************************************************************************)
ReaderPass(puts, ctl) == [puts |-> puts, ctl |-> ctl]

\* lines 126-152: the handling of a line that starts with '?'
query_result_pass(text, halt) ==
    LET query_result == slice_from(text, 2)
    IN  IF float_ok(query_result)
        THEN ReaderPass(halt, "continue")
        ELSE IF query_result = <<>>
        THEN ReaderPass(halt, "raise")
        ELSE IF query_result[1] = "(" /\ query_result[Len(query_result)] = ")"
        THEN ReaderPass(Append(halt, query_result), "continue")
        ELSE IF query_result[1] = "\"" /\ query_result[Len(query_result)] = "\""
        THEN ReaderPass(Append(halt, remove_chars(query_result, {"\""})), "continue")
        ELSE IF query_result = NIL
        THEN ReaderPass(Append(halt, query_result), "continue")
        ELSE ReaderPass(halt, "continue")

\* an error check that lets error lines pass without an entry
halt_check_silent(text) == <<>>

\* lines 122-123: the error check puts HALT and falls through
halt_check(text) ==
    IF contains(text, WHILE_EXECUTING) \/ contains(text, ERROR_KW)
    THEN <<HALT>>
    ELSE <<>>

\* lines 110-152
stdout_reader(raw) ==
    IF \E i \in 1..Len(raw) : raw[i] \in NonAscii
    THEN ReaderPass(<<>>, "raise")
    ELSE LET text == strip(raw)
         IN  IF startswith(text, <<";">>)
             THEN ReaderPass(<<>>, "continue")
             ELSE IF contains(text, TERMINATE)
             THEN ReaderPass(<<>>, "break")
             ELSE IF startswith(text, <<"?">>)
             THEN query_result_pass(text, halt_check(text))
             ELSE ReaderPass(halt_check(text), "continue")


(***************************************************************************)
(* Premise construction and command texts.  A command is the sequence of   *)
(* the text pieces that str.format joins.                                  *)
(***************************************************************************)
template_quant ==
    "A" :> <<"All", "{}", "are", "{}">> @@
    "I" :> <<"Some", "{}", "are", "{}">> @@
    "E" :> <<"No", "{}", "are", "{}">> @@
    "O" :> <<"Some", "{}", "are", "not", "{}">>

template_fig ==
    "1" :> <<<<"A", "B">>, <<"B", "C">>>> @@
    "2" :> <<<<"B", "A">>, <<"C", "B">>>> @@
    "3" :> <<<<"A", "B">>, <<"C", "B">>>> @@
    "4" :> <<<<"B", "A">>, <<"B", "C">>>>

\* str.format(*args): each '{}' takes the next argument
RECURSIVE format(_, _)
format(template, args) ==
    IF template = <<>>
    THEN <<>>
    ELSE IF Head(template) = "{}"
         THEN <<Head(args)>> \o format(Tail(template), Tail(args))
         ELSE <<Head(template)>> \o format(Tail(template), args)

\* construct_premises that fills both templates with the first term pair
construct_premises_first_pair(syllog) ==
    LET prem1 == format(template_quant[syllog[1]], template_fig[syllog[Len(syllog)]][1])
        prem2 == format(template_quant[syllog[2]], template_fig[syllog[Len(syllog)]][1])
    IN  <<prem1, prem2>>

construct_premises(syllog) ==
    LET prem1 == format(template_quant[syllog[1]], template_fig[syllog[Len(syllog)]][1])
        prem2 == format(template_quant[syllog[2]], template_fig[syllog[Len(syllog)]][2])
    IN  <<prem1, prem2>>

\* src/mreasoner.py lines 113-145: the static method of the legacy module
legacy_construct_premises(syllog) ==
    LET quant == "A" :> <<"All", "{}", "are", "{}">> @@
                 "I" :> <<"Some", "{}", "are", "{}">> @@
                 "E" :> <<"No", "{}", "are", "{}">> @@
                 "O" :> <<"Some", "{}", "are", "not", "{}">>
        fig == "1" :> <<<<"A", "B">>, <<"B", "C">>>> @@
               "2" :> <<<<"B", "A">>, <<"C", "B">>>> @@
               "3" :> <<<<"A", "B">>, <<"C", "B">>>> @@
               "4" :> <<<<"B", "A">>, <<"B", "C">>>>
        prem1 == format(quant[syllog[1]], fig[syllog[Len(syllog)]][1])
        prem2 == format(quant[syllog[2]], fig[syllog[Len(syllog)]][2])
    IN  <<prem1, prem2>>

\* Parameter values are counted in units of 10^-7.
Unit == 10 * 1000000

DigitChars == <<"0", "1", "2", "3", "4", "5", "6", "7", "8", "9">>

RECURSIVE decimal(_)
decimal(n) ==
    IF n < 10 THEN <<DigitChars[n + 1]>> ELSE Append(decimal(n \div 10), DigitChars[(n % 10) + 1])

RECURSIVE zero_pad(_, _)
zero_pad(s, width) == IF Len(s) >= width THEN s ELSE zero_pad(<<"0">> \o s, width)

\* '{:f}'.format(value): six digits after the point, rounded
format_f(value) ==
    LET mag == IF value < 0 THEN 0 - value ELSE value
        micro == (mag + 5) \div 10
    IN  (IF value < 0 THEN <<"-">> ELSE <<>>)
        \o decimal(micro \div 1000000) \o <<".">> \o zero_pad(decimal(micro % 1000000), 6)

cmd_compile == <<"(compile-file \"", "+mReasoner.lisp", "\")">>

cmd_load_fasl == <<"(load \"", "+mReasoner.fasl", "\")">>

cmd_load_lisp == <<"(load \"", "+mReasoner.lisp", "\")">>

cmd_defvar == <<"(defvar resp 0)">>

cmd_what_follows(prems) ==
    <<"(setf resp ", "(what-follows? (list (parse '(">> \o prems[1]
        \o <<")) (parse '(">> \o prems[2] \o <<"))))", ")">>

cmd_abbreviate == <<"(map 'list (lambda (x) (abbreviate x)) resp)">>

cmd_terminate == <<"(prin1 \"TERMINATE\")">>

cmd_quit == <<"(quit)">>

cmd_set_param(param, value) == <<"(setf +", param, "+ ">> \o format_f(value) \o <<")">>

ParamNames == {"epsilon", "lambda", "omega", "sigma"}

param_order == <<"epsilon", "lambda", "omega", "sigma">>

DefaultParams ==
    "epsilon" :> 0 @@ "lambda" :> 4 * Unit @@ "omega" :> 1 * Unit @@ "sigma" :> 0

\* self.param_bounds, in the order of param_order
param_bounds == <<<<0, Unit>>, <<Unit \div 10, 8 * Unit>>, <<0, Unit>>, <<0, Unit>>>>


(***************************************************************************)
(* Bounds and input sets of the model.                                     *)
(***************************************************************************)
\* lines the child writes in one behaviour
MaxLines == 2

\* API calls made on the instance after construction
MaxCalls == 1

\* lines the output pipe holds unread
PipeLines == 1

ParamInputs == {"lambda", "alpha"}

ValueInputs == {1234567, 9 * Unit}

\* parameter vectors in the order epsilon, lambda, omega, sigma; the second is
\* shorter than the list of names
VecInputs == {<<1234567, 25 * 1000000, 7500000, 5 * 1000000>>, <<0, Unit>>}

\* the points np.random.uniform draws in the model, inside the bounds
RandomPoints ==
    {<<2 * 1000000, Unit, 3 * 1000000, 9 * 1000000>>,
     <<7 * 1000000, 5 * Unit, 6 * 1000000, Unit \div 10>>}

\* training data: the tasks train_x and the observed responses train_y
TrainInputs ==
    {[x |-> <<>>, y |-> <<>>],
     [x |-> <<<<"A", "A", "1">>>>, y |-> <<Aac>>],
     [x |-> <<<<"A", "A", "1">>, <<"O", "E", "3">>>>, y |-> <<Aac, NVC>>]}

\* the points one run of so.minimize evaluates, the random start first
VisitInputs ==
    {<<start>> : start \in RandomPoints}
        \cup {visited \in RandomPoints \X RandomPoints : visited[1] # visited[2]}

\* the training data given to the optimizers
SearchTrainInputs == {train \in TrainInputs : Len(train.x) <= 1}

\* what the child answers to the two commands of a query, as line ids:
\* ['Aac'], ['Aac', 'Iac'], [], ['NVC'] twice, ['HALT'] and an invalid
\* generation-phase entry
ReplyInputs ==
    {[gen |-> "quant", interp |-> "string"], [gen |-> "quant", interp |-> "concls"],
     [gen |-> "quant", interp |-> "emptyList"], [gen |-> "null", interp |-> "null"],
     [gen |-> "nil", interp |-> "nil"], [gen |-> "quant", interp |-> "error"],
     [gen |-> "error", interp |-> "error"]}

\* the values of num and num_fits
NumInputs == {0, 1, 2}

\* old_params of fit_rnd: none, a vector inside the bounds, one outside
SeedInputs == {<<>>, <<5 * 1000000, 4 * Unit, 5 * 1000000, 5 * 1000000>>,
               <<2 * Unit, 4 * Unit, 5 * 1000000, 5 * 1000000>>}

\* engines: ['Aac', 'Iac'] and, once sigma is at least 0.5, ['Aac']; ['Aac']
\* while epsilon is below 0.5 and no conclusion above; an execution error
\* once lambda is at least 2
EngineInputs ==
    {[k |-> 4, at |-> 5 * 1000000, below |-> [gen |-> "quant", interp |-> "concls"],
      above |-> [gen |-> "quant", interp |-> "string"]],
     [k |-> 1, at |-> 5 * 1000000, below |-> [gen |-> "quant", interp |-> "string"],
      above |-> [gen |-> "null", interp |-> "null"]],
     [k |-> 2, at |-> 2 * Unit, below |-> [gen |-> "quant", interp |-> "string"],
      above |-> [gen |-> "error", interp |-> "error"]]}

\* the 64 syllogism identifiers
AllSyllogs == {"A", "I", "E", "O"} \X {"A", "I", "E", "O"} \X {"1", "2", "3", "4"}

SyllogInputs == {<<"A", "A", "1">>, <<"O", "E", "3">>}

\* the lines the child writes in Spec: one of each effect the protocol knows
ChildLines ==
    {"terminate", "error", "quant", "null", "concls", "nil", "emptyList", "bare", "result"}

\* the lines the child writes in SpecStore: the end of the reader, a result
\* a query takes, and an execution error
StoreLines == {"terminate", "quant", "error"}

\* the lines the child writes in SpecSetters: the value an assignment
\* evaluates to, plain and with an exponent, and lines with an effect on
\* the queue or on the reader
SetterLines == {"float", "floatExp", "quant", "error", "terminate"}

(***************************************************************************)
(* State.                                                                  *)
(***************************************************************************)
VARIABLES
    impl,               \* "package": src/mreasoner/mreasoner.py, "legacy": src/mreasoner.py
    pc,                 \* where the foreground caller is
    call,               \* the API call in progress, or the last one made
    ret,                \* how the last finished API call ended
    ncalls,             \* API calls started
    reader,             \* the reader thread: "Running", or ended "Stopped" / "Crashed"
    stdout,             \* lines written by the child and not yet read
    nlines,             \* lines the child has written
    stdin,              \* commands written to the child's input, in order
    executed_commands,  \* self.executed_commands
    resp_queue,         \* self.resp_queue
    params,             \* self.params
    default_params,     \* self.default_params
    first_cmd,          \* position in stdin of the first command of the call
    popped,             \* the queue entries the call has taken, in order
    opt                 \* the locals of the fitting call in progress

vars ==
    <<impl, pc, call, ret, ncalls, reader, stdout, nlines, stdin, executed_commands,
      resp_queue, params, default_params, first_cmd, popped, opt>>

NoParams == [n \in {} |-> 0]

Call(op, param, value, syllog) == [op |-> op, param |-> param, value |-> value, syllog |-> syllog]

\* a call with its arguments as a record
CallArgs(op, args) ==
    [op |-> op, param |-> "", value |-> 0, syllog |-> <<>>, args |-> args]

NoLocals == [op |-> "none"]

Outcome(kind, exc, value) == [kind |-> kind, exc |-> exc, value |-> value]

Returned(value) == Outcome("return", "", value)

Raised(exc) == Outcome("raise", exc, <<>>)

Init ==
    /\ impl \in {"package", "legacy"}
    /\ pc = "new"
    /\ call = Call("__init__", "", 0, <<>>)
    /\ ret = Outcome("none", "", <<>>)
    /\ ncalls = 0
    /\ reader = "Running"
    /\ stdout = <<>>
    /\ nlines = 0
    /\ stdin = <<>>
    /\ executed_commands = <<>>
    /\ resp_queue = <<>>
    /\ params = NoParams
    /\ default_params = NoParams
    /\ first_cmd = 1
    /\ popped = <<>>
    /\ opt = NoLocals

(***************************************************************************)
(* The command channel.                                                    *)
(***************************************************************************)
\* _send, once for each command of cmds in order; only the package keeps the log
send(cmds) ==
    /\ stdin' = stdin \o cmds
    /\ executed_commands' =
          IF impl = "package" THEN executed_commands \o cmds ELSE executed_commands

cmd_set_defaults == [i \in 1..4 |-> cmd_set_param(param_order[i], DefaultParams[param_order[i]])]

(***************************************************************************)
(* Construction, after the reader thread has been started.                 *)
(***************************************************************************)
\* a constructor that assigns the parameters before it loads the engine
init_package_params_first(fasl_exists) ==
    /\ impl = "package"
    /\ pc = "new"
    /\ call' = CallArgs("__init__", [fasl_exists |-> fasl_exists])
    /\ send(cmd_set_defaults \o (IF fasl_exists THEN <<>> ELSE <<cmd_compile>>)
            \o <<cmd_load_fasl, cmd_defvar>>)
    /\ default_params' = DefaultParams
    /\ params' = DefaultParams
    /\ pc' = "idle"
    /\ ret' = Returned(<<>>)
    /\ UNCHANGED <<opt, impl, ncalls, reader, stdout, nlines, resp_queue, first_cmd, popped>>

\* fasl_exists: os.path.exists(fasl_path), the compiled artifact is there
init_package(fasl_exists) ==
    /\ impl = "package"
    /\ pc = "new"
    /\ call' = CallArgs("__init__", [fasl_exists |-> fasl_exists])
    /\ send((IF fasl_exists THEN <<>> ELSE <<cmd_compile>>)
            \o <<cmd_load_fasl, cmd_defvar>> \o cmd_set_defaults)
    /\ default_params' = DefaultParams
    /\ params' = DefaultParams
    /\ pc' = "idle"
    /\ ret' = Returned(<<>>)
    /\ UNCHANGED <<opt, impl, ncalls, reader, stdout, nlines, resp_queue, first_cmd, popped>>

init_legacy ==
    /\ impl = "legacy"
    /\ pc = "new"
    /\ send(<<cmd_load_lisp, cmd_defvar>> \o cmd_set_defaults)
    /\ params' = DefaultParams
    /\ pc' = "idle"
    /\ ret' = Returned(<<>>)
    /\ UNCHANGED <<opt, impl, call, ncalls, reader, stdout, nlines, resp_queue, default_params,
                   first_cmd, popped>>

(***************************************************************************)
(* set_param (the same code in both modules).                              *)
(***************************************************************************)
StartCall(c) ==
    /\ pc = "idle"
    /\ ncalls < MaxCalls
    /\ ncalls' = ncalls + 1
    /\ call' = c
    /\ first_cmd' = Len(stdin) + 1
    /\ popped' = <<>>

\* set_param without the membership test of line 319
set_param_unchecked(param, value) ==
    /\ StartCall(Call("set_param", param, value, <<>>))
    /\ params' = [n \in DOMAIN params \cup {param} |-> IF n = param THEN value ELSE params[n]]
    /\ send(<<cmd_set_param(param, value)>>)
    /\ ret' = Returned(<<>>)
    /\ UNCHANGED <<opt, impl, pc, reader, stdout, nlines, resp_queue, default_params>>

\* set_param on an instance whose params is the default_params object itself
\* (no copy.deepcopy at line 179)
set_param_shared(param, value) ==
    /\ StartCall(Call("set_param", param, value, <<>>))
    /\ IF param \notin DOMAIN params
       THEN /\ ret' = Raised("ValueError")
            /\ UNCHANGED <<params, default_params, stdin, executed_commands>>
       ELSE /\ params' = [params EXCEPT ![param] = value]
            /\ default_params' = params'
            /\ send(<<cmd_set_param(param, value)>>)
            /\ ret' = Returned(<<>>)
    /\ UNCHANGED <<opt, impl, pc, reader, stdout, nlines, resp_queue>>

set_param(param, value) ==
    /\ StartCall(Call("set_param", param, value, <<>>))
    /\ IF param \notin DOMAIN params
       THEN /\ ret' = Raised("ValueError")
            /\ UNCHANGED <<params, stdin, executed_commands>>
       ELSE /\ params' = [params EXCEPT ![param] = value]
            /\ send(<<cmd_set_param(param, value)>>)
            /\ ret' = Returned(<<>>)
    /\ UNCHANGED <<opt, impl, pc, reader, stdout, nlines, resp_queue, default_params>>

(***************************************************************************)
(* set_param_vec: zip(param_names, params) pairs the names with the values *)
(* and stops at the shorter of the two.                                    *)
(***************************************************************************)
zip_len(values) == IF Len(values) < Len(param_order) THEN Len(values) ELSE Len(param_order)

\* the commands of the set_param calls, in the order they are made
vec_cmds(values) == [i \in 1..zip_len(values) |-> cmd_set_param(param_order[i], values[i])]

\* a store whose values without a partner in the vector fall back to zero
vec_store_zero_fill(store, values) ==
    [n \in DOMAIN store |->
        IF \E i \in 1..zip_len(values) : param_order[i] = n
        THEN values[CHOOSE i \in 1..zip_len(values) : param_order[i] = n]
        ELSE 0]

\* self.params after the set_param calls
vec_store(store, values) ==
    [n \in DOMAIN store |->
        IF \E i \in 1..zip_len(values) : param_order[i] = n
        THEN values[CHOOSE i \in 1..zip_len(values) : param_order[i] = n]
        ELSE store[n]]

\* set_param_vec that walks the names from the last to the first
set_param_vec_reversed(values) ==
    /\ impl = "package"
    /\ StartCall(CallArgs("set_param_vec", [values |-> values]))
    /\ params' = vec_store(params, values)
    /\ send([i \in 1..zip_len(values) |-> vec_cmds(values)[zip_len(values) + 1 - i]])
    /\ ret' = Returned(<<>>)
    /\ UNCHANGED <<opt, impl, pc, reader, stdout, nlines, resp_queue, default_params>>

set_param_vec(values) ==
    /\ impl = "package"
    /\ StartCall(CallArgs("set_param_vec", [values |-> values]))
    /\ params' = vec_store(params, values)
    /\ send(vec_cmds(values))
    /\ ret' = Returned(<<>>)
    /\ UNCHANGED <<opt, impl, pc, reader, stdout, nlines, resp_queue, default_params>>

(***************************************************************************)
(* construct_premises called on its own: a static method of both modules.  *)
(***************************************************************************)
premises_call(syllog) ==
    /\ StartCall(Call("construct_premises", "", 0, syllog))
    /\ ret' = Returned(IF impl = "package"
                       THEN construct_premises(syllog)
                       ELSE legacy_construct_premises(syllog))
    /\ UNCHANGED <<opt, impl, pc, reader, stdout, nlines, stdin, executed_commands,
                   resp_queue, params, default_params>>

(***************************************************************************)
(* query of the package: two phases, each blocking on the queue.           *)
(***************************************************************************)
conclusion_candidates(conclusion) == split(remove_chars(conclusion, {"\"", "(", ")"}))

query_send(syllog) ==
    /\ impl = "package"
    /\ StartCall(Call("query", "", 0, syllog))
    /\ send(<<cmd_what_follows(construct_premises(syllog))>>)
    /\ pc' = "query_get1"
    /\ UNCHANGED <<opt, impl, ret, reader, stdout, nlines, resp_queue, params, default_params>>

\* query whose null/nil branch also runs the interpretation round trip
query_get1_second_trip ==
    /\ pc = "query_get1"
    /\ resp_queue # <<>>
    /\ resp_queue' = Tail(resp_queue)
    /\ popped' = Append(popped, Head(resp_queue))
    /\ LET query_result == Head(resp_queue).val
       IN  IF \/ contains(query_result, Q_INTENSION)
              \/ contains(query_result, NULL_INTENSION)
              \/ query_result = NIL
           THEN /\ send(<<cmd_abbreviate>>)
                /\ pc' = "query_get2"
                /\ ret' = ret
           ELSE /\ ret' = Raised("AssertionError")
                /\ pc' = "idle"
                /\ UNCHANGED <<stdin, executed_commands>>
    /\ UNCHANGED <<opt, impl, call, ncalls, reader, stdout, nlines, params, default_params,
                   first_cmd>>

\* lines 262-282: resp_queue.get() and the branch on the generation-phase entry
query_get1 ==
    /\ pc = "query_get1"
    /\ resp_queue # <<>>
    /\ resp_queue' = Tail(resp_queue)
    /\ popped' = Append(popped, Head(resp_queue))
    /\ LET query_result == Head(resp_queue).val
       IN  IF contains(query_result, Q_INTENSION)
           THEN /\ send(<<cmd_abbreviate>>)
                /\ pc' = "query_get2"
                /\ ret' = ret
           ELSE IF contains(query_result, NULL_INTENSION) \/ query_result = NIL
           THEN /\ ret' = Returned(conclusion_candidates(NVC))
                /\ pc' = "idle"
                /\ UNCHANGED <<stdin, executed_commands>>
           ELSE /\ ret' = Raised("AssertionError")
                /\ pc' = "idle"
                /\ UNCHANGED <<stdin, executed_commands>>
    /\ UNCHANGED <<opt, impl, call, ncalls, reader, stdout, nlines, params, default_params,
                   first_cmd>>

\* lines 274, 284-286: the interpretation-phase entry becomes the candidates
query_get2 ==
    /\ pc = "query_get2"
    /\ resp_queue # <<>>
    /\ resp_queue' = Tail(resp_queue)
    /\ popped' = Append(popped, Head(resp_queue))
    /\ ret' = Returned(conclusion_candidates(Head(resp_queue).val))
    /\ pc' = "idle"
    /\ UNCHANGED <<opt, impl, call, ncalls, reader, stdout, nlines, stdin, executed_commands,
                   params, default_params, first_cmd>>

(***************************************************************************)
(* terminate (the same code in both modules).                              *)
(***************************************************************************)
terminate_send ==
    /\ StartCall(Call("terminate", "", 0, <<>>))
    /\ send(<<cmd_terminate>>)
    /\ pc' = "join"
    /\ UNCHANGED <<opt, impl, ret, reader, stdout, nlines, resp_queue, params, default_params>>

\* threading.Thread.is_alive of the reader thread
reader_alive == reader \notin {"Stopped", "Crashed"}

\* terminate without the join of line 296
terminate_no_join ==
    /\ pc = "join"
    /\ send(<<cmd_quit>>)
    /\ pc' = "terminated"
    /\ ret' = Returned(<<>>)
    /\ UNCHANGED <<opt, impl, call, ncalls, reader, stdout, nlines, resp_queue, params,
                   default_params, first_cmd, popped>>

\* readerstdout.join() returns once the thread has ended; then '(quit)'
terminate_join ==
    /\ pc = "join"
    /\ ~reader_alive
    /\ send(<<cmd_quit>>)
    /\ pc' = "terminated"
    /\ ret' = Returned(<<>>)
    /\ UNCHANGED <<opt, impl, call, ncalls, reader, stdout, nlines, resp_queue, params,
                   default_params, first_cmd, popped>>


(***************************************************************************)
(* The reader thread: one step reads one line.                             *)
(***************************************************************************)
Entries(puts, cause) == [i \in 1..Len(puts) |-> [val |-> puts[i], cause |-> cause]]

\* the pass of the loop body on each line of the table
reader_pass == [id \in AllLines |-> stdout_reader(LineTable[id])]

reader_step ==
    /\ impl = "package"
    /\ reader = "Running"
    /\ stdout # <<>>
    /\ \E pass \in {reader_pass[Head(stdout).id]} :
          /\ resp_queue' = resp_queue \o Entries(pass.puts, Head(stdout).cause)
          /\ reader' = CASE pass.ctl = "continue" -> "Running"
                         [] pass.ctl = "break" -> "Stopped"
                         [] pass.ctl = "raise" -> "Crashed"
    /\ stdout' = Tail(stdout)
    /\ UNCHANGED <<opt, impl, pc, call, ret, ncalls, nlines, stdin, executed_commands, params,
                   default_params, first_cmd, popped>>

\* src/mreasoner.py lines 50-71: one readline() of the legacy reader, which after
\* a '"RESULT"' line skips one line and queues the next
legacy_reader(state, raw) ==
    IF state = "ResultSkip"
    THEN [puts |-> <<>>, next |-> "ResultTake"]
    ELSE IF \E i \in 1..Len(raw) : raw[i] \in NonAscii
    THEN [puts |-> <<>>, next |-> "Crashed"]
    ELSE LET text == strip(raw)
         IN  IF state = "ResultTake"
             THEN [puts |-> <<remove_chars(text, {"\""})>>, next |-> "Running"]
             ELSE IF startswith(text, <<";">>) \/ startswith(text, <<"?">>)
             THEN [puts |-> <<>>, next |-> "Running"]
             ELSE IF contains(text, TERMINATE)
             THEN [puts |-> <<>>, next |-> "Stopped"]
             ELSE IF text = Quoted(<<"R", "E", "S", "U", "L", "T">>)
             THEN [puts |-> <<>>, next |-> "ResultSkip"]
             ELSE [puts |-> <<>>, next |-> "Running"]

legacy_reader_pass ==
    [state \in {"Running", "ResultSkip", "ResultTake"} |->
        [id \in AllLines |-> legacy_reader(state, LineTable[id])]]

legacy_reader_step ==
    /\ impl = "legacy"
    /\ reader_alive
    /\ stdout # <<>>
    /\ \E pass \in {legacy_reader_pass[reader][Head(stdout).id]} :
          /\ resp_queue' = resp_queue \o Entries(pass.puts, Head(stdout).cause)
          /\ reader' = pass.next
    /\ stdout' = Tail(stdout)
    /\ UNCHANGED <<opt, impl, pc, call, ret, ncalls, nlines, stdin, executed_commands, params,
                   default_params, first_cmd, popped>>

(***************************************************************************)
(* The child process: any line at any time.  A line is tagged with the     *)
(* number of commands written when it was emitted: the command it answers  *)
(* is that one or an earlier one.                                          *)
(***************************************************************************)
child_emit(id) ==
    /\ nlines < MaxLines
    /\ Len(stdout) < PipeLines
    /\ stdout' = Append(stdout, [id |-> id, cause |-> Len(stdin)])
    /\ nlines' = nlines + 1
    /\ UNCHANGED <<opt, impl, pc, call, ret, ncalls, reader, stdin, executed_commands,
                   resp_queue, params, default_params, first_cmd, popped>>

(***************************************************************************)
(* The objective _fit_fun.  Inside a fitting call the queries are answered *)
(* one at a time: the child answers each command with the lines of a       *)
(* reply, which the reader has passed on before the next command is        *)
(* written.  A reply names the line that answers the generation command    *)
(* and the line that answers the interpretation command.                   *)
(***************************************************************************)
\* the entry the reader queues for a line of a reply
reply_entry(id) == reader_pass[id].puts[1]

\* lines 253-286 for one reply: the commands written after the generation
\* command and how the call ends
query_result(gen, interp) ==
    IF contains(gen, Q_INTENSION)
    THEN [cmds |-> <<cmd_abbreviate>>, kind |-> "return",
          value |-> conclusion_candidates(interp)]
    ELSE IF contains(gen, NULL_INTENSION) \/ gen = NIL
    THEN [cmds |-> <<>>, kind |-> "return", value |-> conclusion_candidates(NVC)]
    ELSE [cmds |-> <<>>, kind |-> "raise", value |-> <<>>]

\* query on the entries the reader queues for the two lines of a reply
query_reply(reply) == query_result(reply_entry(reply.gen), reply_entry(reply.interp))

\* query_reply on each reply of the model
replies_pass == [reply \in ReplyInputs |-> query_reply(reply)]

\* scores are counted in units of 1/ScoreDen: 1/len(pred) is exact for
\* candidate lists of one, two, three or four members
ScoreDen == 2 * 2 * 3

\* a rational number
Frac(num, den) == [num |-> num, den |-> den]

less(a, b) == a.num * b.den < b.num * a.den

member(x, seq) == \E i \in 1..Len(seq) : seq[i] = x

\* zip(train_x, train_y) stops at the shorter list
zip_train(train) == IF Len(train.x) < Len(train.y) THEN Len(train.x) ELSE Len(train.y)

\* the loop of lines 368-370 from task i on, with the score and the commands
\* so far; an AssertionError of query ends it
RECURSIVE score_loop(_, _, _, _, _)
score_loop(train, replies, i, score, cmds) ==
    IF i > zip_train(train)
    THEN [kind |-> "return", exc |-> "", score |-> score, cmds |-> cmds]
    ELSE LET q == replies_pass[replies[i]]
             written == cmds \o <<cmd_what_follows(construct_premises(train.x[i]))>> \o q.cmds
         IN  IF q.kind = "raise"
             THEN [kind |-> "raise", exc |-> "AssertionError", score |-> score,
                   cmds |-> written]
             ELSE score_loop(train, replies, i + 1,
                             score + (IF member(train.y[i], q.value)
                                      THEN ScoreDen \div Len(q.value) ELSE 0),
                             written)

\* lines 372-379 after the loop: 'return 1 - score / len(train_x)'
inaccuracy(loop, len) ==
    IF loop.kind = "raise"
    THEN [kind |-> "raise", exc |-> loop.exc, cmds |-> loop.cmds, error |-> Frac(0, 1)]
    ELSE IF len = 0
    THEN [kind |-> "raise", exc |-> "ZeroDivisionError", cmds |-> loop.cmds,
          error |-> Frac(0, 1)]
    ELSE [kind |-> "return", exc |-> "", cmds |-> loop.cmds,
          error |-> Frac(ScoreDen * len - loop.score, ScoreDen * len)]

\* _fit_fun that returns the accuracy in place of the inaccuracy
fit_fun_accuracy(values, train, replies) ==
    [inaccuracy(score_loop(train, replies, 1, 0, vec_cmds(values)), Len(train.x))
        EXCEPT !.error = Frac(@.den - @.num, @.den)]

\* _fit_fun(params, train_x, train_y): the commands it writes and its result
fit_fun(values, train, replies) ==
    inaccuracy(score_loop(train, replies, 1, 0, vec_cmds(values)), Len(train.x))

\* a call of _fit_fun on its own
fit_fun_call(values, train, replies, include_param) ==
    /\ impl = "package"
    /\ StartCall(CallArgs("_fit_fun", [params |-> values, train |-> train,
                                       replies |-> replies]))
    /\ params' = vec_store(params, values)
    /\ LET run == fit_fun(values, train, replies)
       IN  /\ send(run.cmds)
           /\ ret' = IF run.kind = "raise" THEN Raised(run.exc)
                     ELSE IF include_param THEN Returned(<<run.error, values>>)
                     ELSE Returned(<<run.error>>)
    /\ UNCHANGED <<opt, impl, pc, reader, stdout, nlines, resp_queue, default_params>>

(***************************************************************************)
(* The optimizers.  During a fitting call the child answers as an engine:  *)
(* its reply to a query depends on the parameter values it was last sent.  *)
(***************************************************************************)
engine_reply(engine, point) ==
    IF point[engine.k] < engine.at THEN engine.below ELSE engine.above

\* self._fit_fun(params, train_x, train_y) inside the call in progress
eval_point(point) ==
    fit_fun(point, opt.train,
            [i \in 1..Len(opt.train.x) |-> engine_reply(opt.engine, point)])

None == <<>>

\* best_error = 2, best_params = None
search_locals(op, train, engine, num) ==
    [op |-> op, train |-> train, engine |-> engine, num |-> num, idx |-> 0,
     best_error |-> Frac(2, 1), best_params |-> None, evaluated |-> <<>>]

\* a search that keeps the point evaluated last
track_latest(locals, point, error) ==
    [locals EXCEPT !.idx = @ + 1,
                   !.best_error = error,
                   !.best_params = point,
                   !.evaluated = Append(@, [point |-> point, error |-> error])]

\* 'if error < best_error: best_error = error; best_params = params'
track_best(locals, point, error) ==
    [locals EXCEPT !.idx = @ + 1,
                   !.best_error = IF less(error, locals.best_error) THEN error ELSE @,
                   !.best_params = IF less(error, locals.best_error) THEN point ELSE @,
                   !.evaluated = Append(@, [point |-> point, error |-> error])]

\* one evaluation of the loop body of fit_grid or fit_rnd at a point
search_eval(point) ==
    LET run == eval_point(point)
    IN  /\ params' = vec_store(params, point)
        /\ send(run.cmds)
        /\ IF run.kind = "raise"
           THEN /\ ret' = Raised(run.exc)
                /\ pc' = "idle"
                /\ opt' = NoLocals
           ELSE /\ opt' = track_best(opt, point, run.error)
                /\ UNCHANGED <<pc, ret>>
        /\ UNCHANGED <<impl, call, ncalls, reader, stdout, nlines, resp_queue,
                       default_params, first_cmd, popped>>

\* 'self.set_param_vec(best_params); return best_error, best_params'
search_end ==
    /\ IF opt.best_params = None
       THEN /\ ret' = Raised("TypeError")
            /\ UNCHANGED <<params, stdin, executed_commands>>
       ELSE /\ params' = vec_store(params, opt.best_params)
            /\ send(vec_cmds(opt.best_params))
            /\ ret' = Returned(<<opt.best_error, opt.best_params>>)
    /\ pc' = "idle"
    /\ opt' = NoLocals
    /\ UNCHANGED <<impl, call, ncalls, reader, stdout, nlines, resp_queue,
                   default_params, first_cmd, popped>>

\* a range that starts at the low end and steps by the whole width
linspace_stepping(i, num, j) ==
    param_bounds[i][1] + j * (param_bounds[i][2] - param_bounds[i][1] + 1)

\* np.linspace(lo, hi, num)[j] for the bounds of parameter i, j counted from 0
linspace(i, num, j) ==
    IF num = 1
    THEN param_bounds[i][1]
    ELSE param_bounds[i][1] + (j * (param_bounds[i][2] - param_bounds[i][1])) \div (num - 1)

\* the point the four nested loops reach after idx points, epsilon outermost
grid_point(num, idx) ==
    << linspace(1, num, idx \div (num * num * num)),
       linspace(2, num, (idx \div (num * num)) % num),
       linspace(3, num, (idx \div num) % num),
       linspace(4, num, idx % num) >>

fit_grid_begin(train, num, engine) ==
    /\ impl = "package"
    /\ StartCall(CallArgs("fit_grid", [train |-> train, num |-> num]))
    /\ opt' = search_locals("fit_grid", train, engine, num)
    /\ pc' = "fit_grid"
    /\ UNCHANGED <<impl, ret, reader, stdout, nlines, resp_queue, params, default_params,
                   stdin, executed_commands>>

fit_grid_eval ==
    /\ pc = "fit_grid"
    /\ opt.idx < opt.num * opt.num * opt.num * opt.num
    /\ search_eval(grid_point(opt.num, opt.idx))

fit_grid_end ==
    /\ pc = "fit_grid"
    /\ opt.idx = opt.num * opt.num * opt.num * opt.num
    /\ search_end

\* lines 460-465: a seed that is given (a non-empty list) is evaluated first
\* and becomes the best point as it is
fit_rnd_begin(train, num, old_params, engine) ==
    /\ impl = "package"
    /\ StartCall(CallArgs("fit_rnd", [train |-> train, num |-> num,
                                      old_params |-> old_params]))
    /\ IF Len(old_params) > 0
       THEN LET locals == [search_locals("fit_rnd", train, engine, num)
                             EXCEPT !.best_params = old_params]
                run == fit_fun(old_params, train,
                               [i \in 1..Len(train.x) |-> engine_reply(engine, old_params)])
            IN  /\ params' = vec_store(params, old_params)
                /\ send(run.cmds)
                /\ IF run.kind = "raise"
                   THEN /\ ret' = Raised(run.exc)
                        /\ pc' = "idle"
                        /\ opt' = NoLocals
                   ELSE /\ opt' = [locals EXCEPT
                                      !.best_error = run.error,
                                      !.evaluated = <<[point |-> old_params,
                                                       error |-> run.error]>>]
                        /\ pc' = "fit_rnd"
                        /\ ret' = ret
       ELSE /\ opt' = search_locals("fit_rnd", train, engine, num)
            /\ pc' = "fit_rnd"
            /\ UNCHANGED <<ret, params, stdin, executed_commands>>
    /\ UNCHANGED <<impl, reader, stdout, nlines, resp_queue, default_params>>

fit_rnd_eval(point) ==
    /\ pc = "fit_rnd"
    /\ opt.idx < opt.num
    /\ search_eval(point)

fit_rnd_end ==
    /\ pc = "fit_rnd"
    /\ opt.idx = opt.num
    /\ search_end

(***************************************************************************)
(* fit: num_fits runs of so.minimize (L-BFGS-B inside the bounds), each    *)
(* from a random start.  A run evaluates the objective at the start and at *)
(* the further points it visits; its result is one of the visited points   *)
(* with the objective found there, and a success flag.                     *)
(***************************************************************************)
\* the evaluations of one run from point i of visited on
RECURSIVE minimize(_, _, _, _)
minimize(visited, i, cmds, errors) ==
    IF i > Len(visited)
    THEN [kind |-> "return", exc |-> "", cmds |-> cmds, errors |-> errors, last |-> i - 1]
    ELSE LET run == eval_point(visited[i])
         IN  IF run.kind = "raise"
             THEN [kind |-> "raise", exc |-> run.exc, cmds |-> cmds \o run.cmds,
                   errors |-> errors, last |-> i]
             ELSE minimize(visited, i + 1, cmds \o run.cmds, Append(errors, run.error))

fit_begin(train, num_fits, engine) ==
    /\ impl = "package"
    /\ StartCall(CallArgs("fit", [train |-> train, num_fits |-> num_fits]))
    /\ opt' = [op |-> "fit", train |-> train, engine |-> engine, num |-> num_fits,
               idx |-> 0, results |-> <<>>, runs |-> <<>>]
    /\ pc' = "fit"
    /\ UNCHANGED <<impl, ret, reader, stdout, nlines, resp_queue, params, default_params,
                   stdin, executed_commands>>

\* lines 400-419: one run; 'if res.success: results.append((res.fun, res.x))'
fit_run(visited, k, success) ==
    /\ pc = "fit"
    /\ opt.idx < opt.num
    /\ LET res == minimize(visited, 1, <<>>, <<>>)
       IN  /\ params' = vec_store(params, visited[res.last])
           /\ send(res.cmds)
           /\ IF res.kind = "raise"
              THEN /\ ret' = Raised(res.exc)
                   /\ pc' = "idle"
                   /\ opt' = NoLocals
              ELSE /\ opt' = [opt EXCEPT
                                 !.idx = @ + 1,
                                 !.results = IF success
                                             THEN Append(@, [fun |-> res.errors[k],
                                                             x |-> visited[k]])
                                             ELSE @,
                                 !.runs = Append(@, [success |-> success,
                                                     fun |-> res.errors[k],
                                                     x |-> visited[k]])]
                   /\ UNCHANGED <<pc, ret>>
    /\ UNCHANGED <<impl, call, ncalls, reader, stdout, nlines, resp_queue,
                   default_params, first_cmd, popped>>

\* sorted(results, key=lambda x: x[0])[0]: the first of the results with the
\* least score
sorted_first(results) ==
    results[CHOOSE i \in 1..Len(results) :
               /\ \A j \in 1..Len(results) : ~less(results[j].fun, results[i].fun)
               /\ \A j \in 1..(i - 1) : less(results[i].fun, results[j].fun)]

\* lines 423-436
fit_end ==
    /\ pc = "fit"
    /\ opt.idx = opt.num
    /\ IF Len(opt.results) # opt.num /\ opt.results = <<>>
       THEN /\ params' = [n \in DOMAIN params |-> default_params[n]]
            /\ send([i \in 1..Len(param_order) |->
                        cmd_set_param(param_order[i], default_params[param_order[i]])])
            /\ ret' = Returned(<<Frac(-1, 1),
                                 [i \in 1..Len(param_order) |-> default_params[param_order[i]]]>>)
       ELSE IF opt.results = <<>>
       THEN /\ ret' = Raised("IndexError")
            /\ UNCHANGED <<params, stdin, executed_commands>>
       ELSE /\ params' = vec_store(params, sorted_first(opt.results).x)
            /\ send(vec_cmds(sorted_first(opt.results).x))
            /\ ret' = Returned(<<sorted_first(opt.results).fun, sorted_first(opt.results).x>>)
    /\ pc' = "idle"
    /\ opt' = NoLocals
    /\ UNCHANGED <<impl, call, ncalls, reader, stdout, nlines, resp_queue,
                   default_params, first_cmd, popped>>

Next ==
    \/ \E fasl_exists \in BOOLEAN : init_package(fasl_exists)
    \/ init_legacy
    \/ \E param \in ParamInputs, value \in ValueInputs : set_param(param, value)
    \/ \E values \in VecInputs : set_param_vec(values)
    \/ \E syllog \in SyllogInputs : query_send(syllog)
    \/ query_get1
    \/ query_get2
    \/ terminate_send
    \/ terminate_join
    \/ reader_step
    \/ legacy_reader_step
    \/ \E id \in ChildLines : child_emit(id)

Spec == Init /\ [][Next]_vars


(***************************************************************************)
(* The reader alone, on every line of LineTable.                           *)
(***************************************************************************)
NextReader ==
    \/ \E fasl_exists \in BOOLEAN : init_package(fasl_exists)
    \/ init_legacy
    \/ reader_step
    \/ legacy_reader_step
    \/ \E id \in AllLines : child_emit(id)

SpecReader == Init /\ [][NextReader]_vars

(***************************************************************************)
(* Scheduling: a thread that can take its next step eventually takes it    *)
(* (the reader's readline on a waiting line, a get on a non-empty queue,   *)
(* a join on an ended thread).  The child owes no output.                  *)
(***************************************************************************)
Fairness ==
    /\ WF_vars(reader_step)
    /\ WF_vars(legacy_reader_step)
    /\ WF_vars(query_get1)
    /\ WF_vars(query_get2)
    /\ WF_vars(terminate_join)

FairSpec == Spec /\ Fairness

(***************************************************************************)
(* One caller making queries against the child and the reader, scheduled   *)
(* fairly: the reader reads a line that is in the pipe and a get returns   *)
(* once the queue holds an entry.                                          *)
(***************************************************************************)
\* the state before the construction of an instance of the package
PackageInit == Init /\ impl = "package"

NextQuery ==
    \/ \E fasl_exists \in BOOLEAN : init_package(fasl_exists)
    \/ \E syllog \in SyllogInputs : query_send(syllog)
    \/ query_get1
    \/ query_get2
    \/ reader_step
    \/ \E id \in ChildLines : child_emit(id)

FairQuery ==
    /\ PackageInit
    /\ [][NextQuery]_vars
    /\ WF_vars(reader_step)
    /\ WF_vars(query_get1)
    /\ WF_vars(query_get2)

(***************************************************************************)
(* The fitting layer on its own: construction, the parameter setters, the  *)
(* objective and the optimizers, with the queries of the objective         *)
(* answered reply by reply.                                                *)
(***************************************************************************)
NextFit ==
    \/ \E fasl_exists \in BOOLEAN : init_package(fasl_exists)
    \/ \E param \in ParamInputs, value \in ValueInputs : set_param(param, value)
    \/ \E values \in VecInputs : set_param_vec(values)
    \/ \E train \in SearchTrainInputs, num \in NumInputs, engine \in EngineInputs :
          fit_grid_begin(train, num, engine)
    \/ fit_grid_eval
    \/ fit_grid_end
    \/ \E train \in SearchTrainInputs, num \in NumInputs, old_params \in SeedInputs,
          engine \in EngineInputs : fit_rnd_begin(train, num, old_params, engine)
    \/ \E point \in RandomPoints : fit_rnd_eval(point)
    \/ fit_rnd_end
    \/ \E train \in SearchTrainInputs, num_fits \in NumInputs, engine \in EngineInputs :
          fit_begin(train, num_fits, engine)
    \/ \E visited \in VisitInputs, success \in BOOLEAN :
          \E k \in 1..Len(visited) : fit_run(visited, k, success)
    \/ fit_end

SpecFit == PackageInit /\ [][NextFit]_vars

(***************************************************************************)
(* The premise encoder on its own, over the 64 identifiers, in both        *)
(* modules.                                                                *)
(***************************************************************************)
NextPremises ==
    \/ \E fasl_exists \in BOOLEAN : init_package(fasl_exists)
    \/ init_legacy
    \/ \E syllog \in AllSyllogs : premises_call(syllog)

SpecPremises == Init /\ [][NextPremises]_vars

(***************************************************************************)
(* The objective on its own, over every reply to every task.               *)
(***************************************************************************)
NextObjective ==
    \/ \E fasl_exists \in BOOLEAN : init_package(fasl_exists)
    \/ \E values \in RandomPoints, train \in TrainInputs, include_param \in BOOLEAN :
          \E replies \in [1..Len(train.x) -> ReplyInputs] :
             fit_fun_call(values, train, replies, include_param)

SpecObjective == PackageInit /\ [][NextObjective]_vars

(***************************************************************************)
(* Every public operation of the package on one instance.  The child      *)
(* writes a line of StoreLines while the caller waits for one, in query    *)
(* and in terminate; its lines inside a fitting call are those of the      *)
(* replies of the engine.                                                  *)
(***************************************************************************)
NextStore ==
    \/ \E fasl_exists \in BOOLEAN : init_package(fasl_exists)
    \/ \E param \in ParamInputs, value \in ValueInputs : set_param(param, value)
    \/ \E values \in VecInputs : set_param_vec(values)
    \/ \E syllog \in SyllogInputs : query_send(syllog)
    \/ query_get1
    \/ query_get2
    \/ terminate_send
    \/ terminate_join
    \/ reader_step
    \/ \E id \in StoreLines : pc \in {"query_get1", "query_get2", "join"} /\ child_emit(id)
    \/ \E train \in SearchTrainInputs, num \in NumInputs, engine \in EngineInputs :
          fit_grid_begin(train, num, engine)
    \/ fit_grid_eval
    \/ fit_grid_end
    \/ \E train \in SearchTrainInputs, num \in NumInputs, old_params \in SeedInputs,
          engine \in EngineInputs : fit_rnd_begin(train, num, old_params, engine)
    \/ \E point \in RandomPoints : fit_rnd_eval(point)
    \/ fit_rnd_end
    \/ \E train \in SearchTrainInputs, num_fits \in NumInputs, engine \in EngineInputs :
          fit_begin(train, num_fits, engine)
    \/ \E visited \in VisitInputs, success \in BOOLEAN :
          \E k \in 1..Len(visited) : fit_run(visited, k, success)
    \/ fit_end

SpecStore == PackageInit /\ [][NextStore]_vars

(***************************************************************************)
(* The parameter setters of the package next to the reader thread, with a  *)
(* child that answers in lines of SetterLines.                             *)
(***************************************************************************)
NextSetters ==
    \/ \E fasl_exists \in BOOLEAN : init_package(fasl_exists)
    \/ \E param \in ParamInputs, value \in ValueInputs : set_param(param, value)
    \/ \E values \in VecInputs : set_param_vec(values)
    \/ reader_step
    \/ \E id \in SetterLines : child_emit(id)

SpecSetters == PackageInit /\ [][NextSetters]_vars


(***************************************************************************)
(* Properties.                                                             *)
(***************************************************************************)
Last(s) == s[Len(s)]

\* a reader step: the head of the unread output is consumed
ReadsLine == stdout # <<>> /\ stdout' = Tail(stdout)

InQuery == impl = "package" /\ call.op = "query"

QueryDone == InQuery /\ pc = "idle"

\* commands the call has written so far
Written == Len(stdin) - first_cmd + 1

\* C1: every entry a query call takes from the queue comes from a line the
\* child wrote in answer to a command of that same call, never from a line
\* written before the call's first command was sent.
C1_QueryTakesOwnResponses ==
    InQuery => \A i \in 1..Len(popped) : popped[i].cause >= first_cmd

\* C2: reading one line puts at most one entry on the result queue.
C2_OneEnqueuePerLine ==
    [][(impl = "package" /\ ReadsLine) => Len(resp_queue') <= Len(resp_queue) + 1]_vars

\* C3: the queue never holds more entries than there are commands whose
\* response is still awaited: none outside a query, at most one inside.
C3_QueueWithinOutstanding ==
    impl = "package" =>
        Len(resp_queue) <= (IF pc \in {"query_get1", "query_get2"} THEN 1 ELSE 0)

\* C4: terminate writes the sentinel, waits until the reader thread has ended
\* and only then writes (quit); once terminate has returned the reader is
\* ended, reads no line and puts nothing on the queue.
C4_TerminateHandshake ==
    /\ [](pc = "terminated" => ~reader_alive /\ Last(stdin) = cmd_quit)
    /\ [][/\ (call'.op = "terminate" /\ ncalls' # ncalls)
                => (stdin' = Append(stdin, cmd_terminate) /\ pc' = "join")
          /\ (stdin' # stdin /\ Last(stdin') = cmd_quit)
                => (pc = "join" /\ ~reader_alive /\ Last(stdin) = cmd_terminate)
          /\ (pc = "join" /\ reader_alive) => (pc' = "join" /\ stdin' = stdin)
          /\ pc = "terminated"
                => (~ReadsLine /\ resp_queue' = resp_queue /\ reader' = reader)]_vars

C4_Witness ==
    /\ pc = "terminated"
    /\ reader = "Stopped"
    /\ stdout # <<>>
    /\ stdin[Len(stdin) - 1] = cmd_terminate

\* C5: a HALT entry taken by query ends the call with a distinguished Halt
\* outcome: not an ordinary return of candidates, and not the failure raised
\* for an uninterpretable generation-phase response.
C5_HaltIsDistinguished ==
    (QueryDone /\ \E i \in 1..Len(popped) : popped[i].val = HALT)
        => (ret.kind = "raise" /\ ret.exc # "AssertionError")

\* The rules C6 states, in its precedence: exactly one rule decides a line.
C6_Rules(text) ==
    IF startswith(text, <<";">>) THEN ReaderPass(<<>>, "continue")
    ELSE IF contains(text, TERMINATE) THEN ReaderPass(<<>>, "break")
    ELSE IF contains(text, ERROR_KW) \/ contains(text, WHILE_EXECUTING)
    THEN ReaderPass(<<HALT>>, "continue")
    ELSE IF startswith(text, <<"?">>)
    THEN LET payload == slice_from(text, 2)
         IN  IF float_ok(payload) THEN ReaderPass(<<>>, "continue")
             ELSE IF payload # <<>> /\ Head(payload) = "(" /\ Last(payload) = ")"
             THEN ReaderPass(<<payload>>, "continue")
             ELSE IF payload # <<>> /\ Head(payload) = "\"" /\ Last(payload) = "\""
             THEN ReaderPass(<<remove_chars(payload, {"\""})>>, "continue")
             ELSE IF payload = NIL THEN ReaderPass(<<NIL>>, "continue")
             ELSE ReaderPass(<<>>, "continue")
    ELSE ReaderPass(<<>>, "continue")

\* C6: what the reader does with a line is decided by the line's text alone,
\* by the first rule that applies: comment, termination keyword, error
\* substring, '?' result (float, list, quoted string, NIL, other), any other.
C6_ReaderFollowsRules ==
    [][(impl = "package" /\ ReadsLine) =>
          LET rule == C6_Rules(strip(LineTable[Head(stdout).id]))
              text == strip(LineTable[Head(stdout).id])
          IN  /\ resp_queue' = resp_queue \o Entries(rule.puts, Head(stdout).cause)
              /\ rule.ctl = "break" => reader' = "Stopped"
              /\ startswith(text, <<";">>) => reader' = "Running"]_vars

\* C7: terminate never blocks forever: a caller waiting in terminate
\* eventually leaves the wait.
C7_TerminateEnds == (pc = "join") ~> (pc # "join")

\* C8: a query that returns normally returns a non-empty candidate list.
C8_CandidatesNonEmpty ==
    (QueryDone /\ ret.kind = "return") => ret.value # <<>>

NullOrNil(entry) ==
    \/ contains(entry, NULL_INTENSION) /\ ~contains(entry, Q_INTENSION)
    \/ entry = NIL

\* C9: when the generation-phase entry is a null intension or NIL, query
\* returns the no-valid-conclusion marker after exactly one command write and
\* exactly one queue get.
C9_NullIsOneRoundTrip ==
    (InQuery /\ popped # <<>> /\ NullOrNil(popped[1].val))
        => /\ pc = "idle"
           /\ ret = Returned(<<NVC>>)
           /\ Len(popped) = 1
           /\ Written = 1

C9_Witness ==
    /\ QueryDone
    /\ popped # <<>>
    /\ contains(popped[1].val, NULL_INTENSION)
    /\ popped[1].cause >= first_cmd
    /\ ret = Returned(<<NVC>>)

\* C10: set_param with a name outside the four parameters raises ValueError
\* and leaves the stored values, the defaults, the command log and the
\* child's input as they were.
C10_InvalidParamRejected ==
    [][(call'.op = "set_param" /\ ncalls' # ncalls /\ call'.param \notin ParamNames)
          => /\ ret'.kind = "raise"
             /\ ret'.exc = "ValueError"
             /\ UNCHANGED <<params, default_params, executed_commands, stdin>>]_vars

C10_Witness ==
    /\ call.op = "set_param"
    /\ call.param \notin ParamNames
    /\ ret = Raised("ValueError")
    /\ params = DefaultParams

\* the stored values read back in the order epsilon, lambda, omega, sigma
stored_vec == [i \in 1..Len(param_order) |-> params[param_order[i]]]

\* a vector of four values, each inside its declared interval
within_bounds(values) ==
    /\ Len(values) = Len(param_bounds)
    /\ \A i \in 1..Len(param_bounds) :
          param_bounds[i][1] <= values[i] /\ values[i] <= param_bounds[i][2]

\* C11: set_param_vec(v) with a vector v of four values inside the declared
\* bounds leaves exactly v in the store, read back in the order epsilon,
\* lambda, omega, sigma, and writes exactly four assignment commands to the
\* child, one per parameter in that order.
C11_VecRoundTrip ==
    [][(call'.op = "set_param_vec" /\ ncalls' # ncalls /\ within_bounds(call'.args.values))
          => /\ stored_vec' = call'.args.values
             /\ stdin' = stdin \o << cmd_set_param("epsilon", call'.args.values[1]),
                                      cmd_set_param("lambda", call'.args.values[2]),
                                      cmd_set_param("omega", call'.args.values[3]),
                                      cmd_set_param("sigma", call'.args.values[4]) >>]_vars

C11_Witness ==
    /\ call.op = "set_param_vec"
    /\ within_bounds(call.args.values)
    /\ ret.kind = "return"
    /\ stored_vec = call.args.values
    /\ stored_vec # [i \in 1..4 |-> DefaultParams[param_order[i]]]
    /\ Written = 4

\* the score of task i in units of 1/ScoreDen: 1/|candidates| when the
\* observed response is among the candidates the query returned
C15_TaskScore(i) ==
    LET candidates == query_reply(call.args.replies[i]).value
    IN  IF \E k \in 1..Len(candidates) : candidates[k] = call.args.train.y[i]
        THEN ScoreDen \div Len(candidates)
        ELSE 0

RECURSIVE C15_ScoreSum(_)
C15_ScoreSum(n) == IF n = 0 THEN 0 ELSE C15_ScoreSum(n - 1) + C15_TaskScore(n)

C15_Tasks == 1..Len(call.args.train.x)

C12_Inside(store, i) ==
    /\ param_bounds[i][1] <= store[param_order[i]]
    /\ store[param_order[i]] <= param_bounds[i][2]

\* value is outside the declared interval of parameter i
C12_Outside(value, i) == value < param_bounds[i][1] \/ value > param_bounds[i][2]

\* the step belongs to a call to which the caller has passed a value outside
\* its bound for parameter i
C12_CallerPassesOutside(i) ==
    \/ /\ ncalls' # ncalls
       /\ call'.op = "set_param"
       /\ call'.param = param_order[i]
       /\ C12_Outside(call'.value, i)
    \/ /\ ncalls' # ncalls
       /\ call'.op = "set_param_vec"
       /\ i <= Len(call'.args.values)
       /\ C12_Outside(call'.args.values[i], i)
    \/ /\ call'.op = "fit_rnd"
       /\ i <= Len(call'.args.old_params)
       /\ C12_Outside(call'.args.old_params[i], i)

\* C12 as stated: after any sequence of set_param, set_param_vec, fit,
\* fit_grid and fit_rnd calls every stored parameter value lies within its
\* declared bound interval.
C12_StoredWithinBounds ==
    params # NoParams => \A i \in 1..Len(param_order) : C12_Inside(params, i)

\* C12 amended: a stored parameter value leaves its declared bound interval
\* only in a call to which the caller passes a value outside it, as the
\* value of set_param, in the vector of set_param_vec or in old_params of
\* fit_rnd; every value the construction and fit, fit_grid and fit_rnd
\* choose themselves lies within the bounds.
C12_OnlyCallerLeavesBounds ==
    [][\A i \in 1..Len(param_order) :
          (/\ params' # NoParams
           /\ params # NoParams => C12_Inside(params, i)
           /\ ~C12_Inside(params', i))
             => C12_CallerPassesOutside(i)]_vars

\* fit_grid has returned after moving the stored values through the grid,
\* and they are inside the bounds
C12_Witness ==
    /\ call.op = "fit_grid"
    /\ pc = "idle"
    /\ ret.kind = "return"
    /\ call.args.num = 2
    /\ stored_vec # [i \in 1..4 |-> DefaultParams[param_order[i]]]
    /\ \A i \in 1..Len(param_order) : C12_Inside(params, i)

\* the runs of the fit call in progress that succeeded
C13_Successful == {i \in 1..Len(opt.runs) : opt.runs[i].success}

\* the vector of factory defaults in the order epsilon, lambda, omega, sigma
C13_Defaults == [i \in 1..Len(param_order) |-> default_params[param_order[i]]]

\* C13: when fit has made its num_fits runs, then if at least one run
\* succeeded fit returns the score and vector of a successful run whose score
\* is the least among the successful runs and the stored parameters equal
\* that vector; if no run succeeded the stored parameters equal the factory
\* defaults and fit returns -1 with the default vector.
C13_FitReturnsBestSuccess ==
    [][(pc = "fit" /\ opt.idx = opt.num /\ pc' = "idle")
          => IF C13_Successful # {}
             THEN \E i \in C13_Successful :
                     /\ \A j \in C13_Successful : ~less(opt.runs[j].fun, opt.runs[i].fun)
                     /\ ret' = Returned(<<opt.runs[i].fun, opt.runs[i].x>>)
                     /\ stored_vec' = opt.runs[i].x
             ELSE /\ ret' = Returned(<<Frac(-1, 1), C13_Defaults>>)
                  /\ stored_vec' = C13_Defaults]_vars

\* the num evenly spaced values of parameter i, from its low to its high bound
C14_Axis(i, num) ==
    IF num = 1
    THEN {param_bounds[i][1]}
    ELSE {param_bounds[i][1] + (j * (param_bounds[i][2] - param_bounds[i][1])) \div (num - 1) :
             j \in 0..(num - 1)}

C14_Points == {opt.evaluated[i].point : i \in 1..Len(opt.evaluated)}

\* the step in which fit_grid or fit_rnd returns after its loop
C14_Returns ==
    /\ \/ pc = "fit_grid" /\ opt.idx = opt.num * opt.num * opt.num * opt.num
       \/ pc = "fit_rnd" /\ opt.idx = opt.num
    /\ pc' = "idle"
    /\ ret'.kind = "return"

\* C14: fit_grid evaluates the objective on exactly the num^4 points of the
\* Cartesian product of num values per dimension, fit_rnd on num sampled
\* points after the seed vector when one is given; the returned score is
\* the least objective value over all points evaluated in the call, the
\* returned vector is a point that attained it, and on return the stored
\* parameters equal the returned vector, the last four commands written
\* being the assignments of that vector.
C14_SearchReturnsMinimum ==
    [][C14_Returns
          => /\ pc = "fit_grid"
                  => /\ Len(opt.evaluated) = opt.num * opt.num * opt.num * opt.num
                     /\ C14_Points = C14_Axis(1, opt.num) \X C14_Axis(2, opt.num)
                                         \X C14_Axis(3, opt.num) \X C14_Axis(4, opt.num)
                     /\ Cardinality(C14_Points) = Len(opt.evaluated)
             /\ pc = "fit_rnd"
                  => /\ Len(opt.evaluated)
                          = opt.num + (IF Len(call.args.old_params) > 0 THEN 1 ELSE 0)
                     /\ Len(call.args.old_params) > 0
                          => opt.evaluated[1].point = call.args.old_params
             /\ \A i \in 1..Len(opt.evaluated) :
                    ~less(opt.evaluated[i].error, ret'.value[1])
             /\ \E i \in 1..Len(opt.evaluated) :
                    /\ opt.evaluated[i].error = ret'.value[1]
                    /\ opt.evaluated[i].point = ret'.value[2]
             /\ stored_vec' = ret'.value[2]
             /\ Len(stdin') >= 4
             /\ [i \in 1..4 |-> stdin'[Len(stdin') - 4 + i]] = vec_cmds(ret'.value[2])]_vars

\* fit_grid over two values per dimension has returned a point that is not
\* the last of the sixteen it evaluated, and that point is stored
C14_Witness ==
    /\ call.op = "fit_grid"
    /\ call.args.num = 2
    /\ pc = "idle"
    /\ ret.kind = "return"
    /\ ret.value[2] # <<Unit, 8 * Unit, Unit, Unit>>
    /\ stored_vec = ret.value[2]
    /\ Last(stdin) = cmd_set_param("sigma", ret.value[2][4])

\* the premise of quantifier q over the terms s and p, as words
C16_Premise(q, s, p) ==
    CASE q = "A" -> <<"All", s, "are", p>>
      [] q = "I" -> <<"Some", s, "are", p>>
      [] q = "E" -> <<"No", s, "are", p>>
      [] q = "O" -> <<"Some", s, "are", "not", p>>

\* the pair documented for the identifier q1 q2 f
C16_Expected(syllog) ==
    CASE syllog[3] = "1" ->
            <<C16_Premise(syllog[1], "A", "B"), C16_Premise(syllog[2], "B", "C")>>
      [] syllog[3] = "2" ->
            <<C16_Premise(syllog[1], "B", "A"), C16_Premise(syllog[2], "C", "B")>>
      [] syllog[3] = "3" ->
            <<C16_Premise(syllog[1], "A", "B"), C16_Premise(syllog[2], "C", "B")>>
      [] syllog[3] = "4" ->
            <<C16_Premise(syllog[1], "B", "A"), C16_Premise(syllog[2], "B", "C")>>

\* C16: for each of the 64 identifiers q1 q2 f construct_premises returns
\* q1's template filled with the first term pair of figure f and q2's
\* template filled with the second (AA1: 'All A are B', 'All B are C'; OE3:
\* 'Some A are not B', 'No C are B'); the call changes no state of the
\* instance or the process, and the two modules return the same pair.
C16_PremisesAsDocumented ==
    [][(call'.op = "construct_premises" /\ ncalls' # ncalls)
          => /\ ret' = Returned(C16_Expected(call'.syllog))
             /\ construct_premises(call'.syllog) = legacy_construct_premises(call'.syllog)
             /\ call'.syllog = <<"A", "A", "1">>
                  => ret'.value = << <<"All", "A", "are", "B">>, <<"All", "B", "are", "C">> >>
             /\ call'.syllog = <<"O", "E", "3">>
                  => ret'.value = << <<"Some", "A", "are", "not", "B">>,
                                     <<"No", "C", "are", "B">> >>
             /\ UNCHANGED <<stdin, executed_commands, resp_queue, stdout, reader, params,
                            default_params>>]_vars

\* the legacy module has answered for an identifier of figure 2 whose two
\* quantifiers differ
C16_Witness ==
    /\ impl = "legacy"
    /\ call.op = "construct_premises"
    /\ call.syllog = <<"I", "O", "2">>
    /\ ret = Returned(<< <<"Some", "B", "are", "A">>, <<"Some", "C", "are", "not", "B">> >>)

\* C17: the reader of the package leaves the Running state only by reading
\* a line that contains the termination keyword; on every other line
\* (the bare marker '?' and the empty line at end of stream included) it
\* stays Running.
C17_OnlyTerminateStops ==
    [][(impl = "package" /\ reader = "Running" /\ reader' # "Running")
          => /\ ReadsLine
             /\ contains(strip(LineTable[Head(stdout).id]), TERMINATE)]_vars

\* the line at the head of the pipe reports an execution error: it contains
\* 'Error:' or 'While executing:', does not start with ';' and does not
\* contain 'TERMINATE'
C18_ErrorLineNext ==
    /\ stdout # <<>>
    /\ LET text == strip(LineTable[Head(stdout).id])
       IN  /\ contains(text, ERROR_KW) \/ contains(text, WHILE_EXECUTING)
           /\ ~startswith(text, <<";">>)
           /\ ~contains(text, TERMINATE)

\* the caller waits inside query on the empty queue
C18_Blocked ==
    /\ impl = "package"
    /\ pc \in {"query_get1", "query_get2"}
    /\ resp_queue = <<>>

\* C18: if the caller is blocked on the result queue inside query and the
\* running reader, scheduled fairly, reads a line that reports an execution
\* error, the caller is eventually unblocked and its query call ends, with
\* a result or an error.
C18_ErrorUnblocksCaller ==
    (C18_Blocked /\ reader = "Running" /\ C18_ErrorLineNext) ~> (pc = "idle")

\* the query was blocked in its first get and has ended with the error the
\* HALT entry causes
C18_Witness ==
    /\ InQuery
    /\ pc = "idle"
    /\ Len(popped) = 1
    /\ popped[1].val = HALT
    /\ popped[1].cause >= first_cmd
    /\ ret = Raised("AssertionError")

\* the entries the call has taken that the child wrote after the call's
\* first command, the only ones that can answer a command of the call
C19_Answers == {k \in 1..Len(popped) : popped[k].cause >= first_cmd}

\* C19: inside one query call the interpretation command is written only
\* after the generation-phase entry has been dequeued and only if that entry
\* contains 'Q-INTENSION'; the call writes at most two commands, takes at
\* most two entries from the queue, and never has two of its commands
\* awaiting a response at once.
C19_HalfDuplex ==
    InQuery
       => /\ Written <= 2
          /\ Len(popped) <= 2
          /\ Written >= 1
               => stdin[first_cmd] = cmd_what_follows(construct_premises(call.syllog))
          /\ Written = 2
               => /\ stdin[first_cmd + 1] = cmd_abbreviate
                  /\ Len(popped) >= 1
                  /\ contains(popped[1].val, Q_INTENSION)
          /\ Written - Cardinality(C19_Answers) <= 1

\* the bootstrap commands in their documented order, without the compile
\* command when the compiled artifact exists
C20_Bootstrap(fasl_exists) ==
    (IF fasl_exists THEN <<>> ELSE <<cmd_compile>>)
       \o << cmd_load_fasl, cmd_defvar,
              cmd_set_param("epsilon", 0), cmd_set_param("lambda", 4 * Unit),
              cmd_set_param("omega", Unit), cmd_set_param("sigma", 0) >>

\* commands holds bootstrap at its start and no compile, load or defvar
\* command after it
C20_StartsWith(commands, bootstrap) ==
    /\ Len(commands) >= Len(bootstrap)
    /\ SubSeq(commands, 1, Len(bootstrap)) = bootstrap
    /\ \A k \in (Len(bootstrap) + 1)..Len(commands) :
          commands[k] \notin {cmd_compile, cmd_load_fasl, cmd_defvar}

\* C20: construction writes the bootstrap commands once and in order
\* before any other command: compile-file only when no compiled artifact
\* exists, then load, (defvar resp 0) and the assignments of epsilon, lambda,
\* omega and sigma with their default values; nothing is written before
\* construction, and the command log holds the same commands in the same
\* order.
C20_BootstrapOnceInOrder ==
    impl = "package"
       => /\ pc = "new" => stdin = <<>> /\ executed_commands = <<>>
          /\ pc # "new"
               => /\ \E fasl_exists \in BOOLEAN :
                        C20_StartsWith(stdin, C20_Bootstrap(fasl_exists))
                  /\ executed_commands = stdin
          /\ (pc # "new" /\ call.op = "__init__")
               => stdin = C20_Bootstrap(call.args.fasl_exists)

\* a fit_grid call has written its commands after the bootstrap of an
\* instance that had to compile the engine
C20_Witness ==
    /\ impl = "package"
    /\ call.op = "fit_grid"
    /\ pc = "idle"
    /\ ret.kind = "return"
    /\ stdin[1] = cmd_compile
    /\ C20_StartsWith(executed_commands, C20_Bootstrap(FALSE))
    /\ Len(stdin) > Len(C20_Bootstrap(FALSE))

\* the factory defaults as documented
C21_Factory == [epsilon |-> 0, lambda |-> 4 * Unit, omega |-> Unit, sigma |-> 0]

\* C21: default_params holds epsilon 0.0, lambda 4.0, omega 1.0, sigma 0.0
\* from construction on, whatever set_param, set_param_vec, query, fit,
\* fit_grid, fit_rnd and terminate calls were made and however they ended,
\* and whatever the stored values are.
C21_DefaultsImmutable ==
    (impl = "package" /\ pc # "new") => default_params = C21_Factory

\* a call has moved the stored values away from the defaults
C21_Witness ==
    /\ impl = "package"
    /\ ncalls > 0
    /\ pc = "idle"
    /\ ret.kind = "return"
    /\ params # C21_Factory
    /\ default_params = C21_Factory

\* a step in which set_param or set_param_vec is called and returns
C22_SetterReturns ==
    /\ ncalls' # ncalls
    /\ call'.op \in {"set_param", "set_param_vec"}
    /\ ret'.kind = "return"

\* the assignments the call asks for: the named parameter, or the names
\* epsilon, lambda, omega, sigma paired with the values of the vector
C22_Assigned ==
    IF call'.op = "set_param"
    THEN <<[name |-> call'.param, value |-> call'.value]>>
    ELSE [i \in 1..(IF Len(call'.args.values) < 4 THEN Len(call'.args.values) ELSE 4) |->
             [name |-> <<"epsilon", "lambda", "omega", "sigma">>[i],
              value |-> call'.args.values[i]]]

C22_Commands == [i \in 1..Len(C22_Assigned) |->
                    cmd_set_param(C22_Assigned[i].name, C22_Assigned[i].value)]

\* the reader takes a line that holds the value of an assignment
C22_ReadsValueLine ==
    /\ reader = "Running"
    /\ ReadsLine
    /\ Head(stdout).id \in {"float", "floatExp"}

\* C22: set_param and set_param_vec do not touch the result queue and do
\* not wait on it: a call that returns has appended one command per named
\* parameter to the child's input and to the command log, has changed the
\* named stored values only, and has left the queue, the unread output and
\* the reader as they were; and the reader queues nothing for a reply line
\* that holds the assigned value.
C22_SettersLeaveQueue ==
    [][/\ C22_SetterReturns
           => /\ stdin' = stdin \o C22_Commands
              /\ executed_commands' = executed_commands \o C22_Commands
              /\ DOMAIN params' = DOMAIN params
              /\ \A n \in DOMAIN params :
                    IF \E i \in 1..Len(C22_Assigned) : C22_Assigned[i].name = n
                    THEN \E i \in 1..Len(C22_Assigned) :
                            C22_Assigned[i].name = n /\ params'[n] = C22_Assigned[i].value
                    ELSE params'[n] = params[n]
              /\ resp_queue' = resp_queue
              /\ popped' = <<>>
              /\ stdout' = stdout
              /\ reader' = reader
              /\ pc' = "idle"
       /\ C22_ReadsValueLine => (resp_queue' = resp_queue /\ reader' = "Running")]_vars

\* set_param_vec has returned on an instance whose queue holds an entry, and
\* the value line that answers its last command is waiting for the reader
C22_Witness ==
    /\ call.op = "set_param_vec"
    /\ ret.kind = "return"
    /\ pc = "idle"
    /\ resp_queue # <<>>
    /\ Len(stdin) > first_cmd
    /\ reader = "Running"
    /\ stdout = <<[id |-> "float", cause |-> Len(stdin)]>>

====
